---- MODULE Spec2Model ----
(***************************************************************************)
(* Process supervision and log streaming of the Verdaccio manager          *)
(* (src-tauri/src/tools/verdaccio.rs, src-tauri/src/lib.rs).               *)
(*                                                                         *)
(* VerdaccioProcess keeps five independently locked fields (child, port,   *)
(* pid, logs, is_running).  The tauri commands start_verdaccio,            *)
(* stop_verdaccio, get_verdaccio_status, get_verdaccio_logs and            *)
(* clear_verdaccio_logs run as tasks of a multi-threaded runtime, so       *)
(* several of them can be in progress at once; each spawned child has one  *)
(* consumer task draining its event channel.                               *)
(*                                                                         *)
(* Granularity.  Every acquisition of the child, port, pid or is_running   *)
(* mutex is a step of its own, with the reads and writes done under it.    *)
(* Code between two such acquisitions that touches only the log buffer,    *)
(* the file system or the operating system (add_log calls, the probes of   *)
(* get_verdaccio_entry, spawn, kill) commutes with every step of the       *)
(* other tasks on child, port, pid and is_running, and is taken together   *)
(* with the acquisition that precedes or follows it.                       *)
(***************************************************************************)
EXTENDS Integers, Sequences, FiniteSets, TLC

(* ------------------------------ bounds -------------------------------- *)

\* Command invocations issued by the front end in one run.
MaxCalls == 3

\* Command invocations in one run of the specification with fairness.
FairCalls == 2

\* Child processes the operating system lets the program spawn in one run.
MaxSpawns == 2

\* Output events (stdout line, stderr line, error) the children emit in one run.
MaxOutput == 1

\* Command invocations in one run of LockSpec.
LockCalls == 2

\* Command invocations in one run of StreamSpec.
StreamCalls == 2

\* Output events the children emit in one run of StreamSpec.
MaxLines == 2

\* Length, in tokens, of the output line a child writes in LineSpec.
MaxLen == 4

\* Command invocations in one run of EnvSpec.
EnvCalls == 2

\* Capacity of the log buffer; the code's MAX_LOG_ENTRIES is 1000
\* (verdaccio.rs:35), scaled down here so that eviction happens.
MAX_LOG_ENTRIES == 3

\* The front end's concurrent callers (tasks of the async runtime).
Callers == {1, 2}

\* Ports a caller may ask for; 4873 is also the default of the record.
Ports == {4873, 8080}

Insts == 1 .. MaxSpawns

(* --------------------------- values and text --------------------------- *)

\* Option::None of the child and pid fields; Some(x) is x >= 1.
None == 0

DefaultPort == 4873

\* Texts are sequences of tokens: a token is a control character, one of
\* the characters the ANSI pattern looks at, a blank, or a run of other text.
ESC == "ESC"

\* A plausible slip: the pattern [0-9]* in place of [0-9;]*.
ParamDigits == {"0", "1", "3"}

ParamChars == {"0", "1", "3", ";"}

Blank == " "

DigitStr == <<"1", "2", "3", "4", "5", "6">>

PortStr(p) == IF p = 4873 THEN "4873" ELSE "8080"

\* strip_ansi_codes: regex \x1b\[[0-9;]*m, every leftmost match removed.
\* ParamEnd(s, j) is the first index at or after j that holds no parameter
\* character: the greedy [0-9;]* stops there.
RECURSIVE ParamEnd(_, _)
ParamEnd(s, j) ==
    IF j <= Len(s) /\ s[j] \in ParamChars THEN ParamEnd(s, j + 1) ELSE j

RECURSIVE StripFrom(_, _)
StripFrom(s, i) ==
    IF i > Len(s) THEN <<>>
    ELSE IF s[i] = ESC /\ i + 1 <= Len(s) /\ s[i + 1] = "["
         THEN LET j == ParamEnd(s, i + 2) IN
              IF j <= Len(s) /\ s[j] = "m"
              THEN StripFrom(s, j + 1)
              ELSE <<s[i]>> \o StripFrom(s, i + 1)
         ELSE <<s[i]>> \o StripFrom(s, i + 1)

strip_ansi_codes(s) == StripFrom(s, 1)

\* str::trim: leading and trailing blanks removed.
RECURSIVE TrimStart(_)
TrimStart(s) ==
    IF s # <<>> /\ Head(s) = Blank THEN TrimStart(Tail(s)) ELSE s

RECURSIVE TrimEnd(_)
TrimEnd(s) ==
    IF s # <<>> /\ s[Len(s)] = Blank THEN TrimEnd(SubSeq(s, 1, Len(s) - 1)) ELSE s

Trim(s) == TrimEnd(TrimStart(s))

\* The LogEntry pushed by add_log (the wall-clock timestamp is left out).
LogEntry(level, message) == [level |-> level, message |-> strip_ansi_codes(message)]

\* A plausible slip: the capacity test is off by one.
RECURSIVE EvictLate(_)
EvictLate(l) == IF Len(l) > MAX_LOG_ENTRIES + 1 THEN EvictLate(Tail(l)) ELSE l

\* A plausible slip: pop_back in place of pop_front.
RECURSIVE EvictBack(_)
EvictBack(l) == IF Len(l) > MAX_LOG_ENTRIES THEN EvictBack(SubSeq(l, 1, Len(l) - 1)) ELSE l

\* The while loop of add_log: pop_front until len <= MAX_LOG_ENTRIES.
RECURSIVE Evict(_)
Evict(l) == IF Len(l) > MAX_LOG_ENTRIES THEN Evict(Tail(l)) ELSE l

\* A plausible slip: push_front in place of push_back.
push_front_entry(l, entry) == Evict(<<entry>> \o l)

\* push_back of an entry, then the eviction loop.
push_entry(l, entry) == Evict(Append(l, entry))

\* add_log on buffer l.
add_log(l, level, message) == push_entry(l, LogEntry(level, message))

(* -------------------------------- state -------------------------------- *)

VARIABLES
    child,      \* VerdaccioProcess.child: None or the instance whose handle is held
    port,       \* VerdaccioProcess.port
    pid,        \* VerdaccioProcess.pid: None or the pid of an instance
    logs,       \* VerdaccioProcess.logs
    is_running, \* VerdaccioProcess.is_running
    holder,     \* for the mutexes held across steps (child, port, logs): the task
                \* holding it (a caller t, or -i for the consumer of instance i), or 0
    fs,         \* ~/.verdaccio: the two directories and config.yaml
    proc,       \* per instance: "unborn", "running", "exited" or "killed" (the OS's view)
    listen,     \* per instance: the --listen argument it was spawned with
    chan,       \* per instance: the events sent on rx and not yet received
    nout,       \* output events the children have emitted so far
    cons,       \* per instance: position of its consumer task
    pc,         \* per caller: position in the command it runs
    arg,        \* per caller: the command's parameters
    my,         \* per caller: the instance this start call spawned, or None
    snap,       \* per caller: what get_verdaccio_status has read so far
    ret,        \* per caller: the last command's result
    calls,      \* commands invoked so far
    touched,    \* history: the running command changed child, pid, port or is_running
    appended,   \* history: the log entries the running command appended
    raced,      \* history: callers whose running start overlapped a stop_verdaccio
    live,       \* history: instances whose start returned Ok, with no stop running
                \* or called since that start was called and no termination event
                \* of theirs received
    probed,     \* history: what the path probes of each caller's start found
    during      \* history: callers whose start_verdaccio was invoked while the
                \* clearing of the recorded instance was in progress

procVars == <<child, port, pid, is_running>>
envVars == <<fs, proc, listen, chan, nout>>
callVars == <<pc, arg, my, snap, ret, calls>>
histVars == <<touched, appended, raced, live, during, probed>>
vars == <<child, port, pid, logs, is_running, holder, fs, proc, listen, chan, nout,
          cons, pc, arg, my, snap, ret, calls, touched, appended, raced, live, during,
          probed>>

\* The mutexes of VerdaccioProcess that some task holds over several steps.
Locks == {"child", "port", "logs"}

NoArg == [port |-> DefaultPort, allow_lan |-> FALSE]
NoSnap == [port |-> DefaultPort, pid |-> None]
NoRet == [op |-> "none", res |-> "none", running |-> FALSE, port |-> DefaultPort, pid |-> None,
          logs |-> <<>>]

FreshFs == [vdir |-> FALSE, sdir |-> FALSE, config |-> "absent"]

\* VerdaccioProcess::default, no command running, no child spawned.
Init ==
    /\ child = None
    /\ port = DefaultPort
    /\ pid = None
    /\ logs = <<>>
    /\ is_running = FALSE
    /\ holder = [l \in Locks |-> 0]
    /\ fs = FreshFs
    /\ proc = [i \in Insts |-> "unborn"]
    /\ listen = [i \in Insts |-> <<"none", DefaultPort>>]
    /\ chan = [i \in Insts |-> <<>>]
    /\ nout = 0
    /\ cons = [i \in Insts |-> "none"]
    /\ pc = [t \in Callers |-> "idle"]
    /\ arg = [t \in Callers |-> NoArg]
    /\ my = [t \in Callers |-> None]
    /\ snap = [t \in Callers |-> NoSnap]
    /\ ret = [t \in Callers |-> NoRet]
    /\ calls = 0
    /\ touched = [t \in Callers |-> FALSE]
    /\ appended = [t \in Callers |-> <<>>]
    /\ raced = {}
    /\ live = {}
    /\ during = {}
    /\ probed = [t \in Callers |-> <<>>]

(* ------------------------------ helpers ------------------------------- *)

INFO == "INFO"
ERROR == "ERROR"

\* Texts of the log messages the commands write.
MsgStarting == <<"starting">>
MsgEntry(e) == <<"entry:", e>>
MsgConfig == <<"config:", "config.yaml">>
MsgPort(p) == <<"port:", PortStr(p)>>
MsgHost(h) == <<"host:", h>>
MsgSidecarFailed == <<"sidecar failed">>
MsgSpawnFailed == <<"spawn failed">>
MsgStarted(i) == <<"started, pid:", DigitStr[i]>>
MsgStopping == <<"stopping">>
MsgKillFailed == <<"kill failed">>
MsgStopped == <<"stopped">>
MsgProcError == <<"process error">>
MsgExited(code) == <<"exited, code:", code>>

\* self.logs.lock() succeeds at once: no add_log, get or clear is under way.
LogsFree == holder["logs"] = 0

\* The command of caller t appends one entry through add_log.
Log(t, level, message) ==
    /\ LogsFree
    /\ logs' = add_log(logs, level, message)
    /\ appended' = [appended EXCEPT ![t] = Append(@, LogEntry(level, message))]

NoLog == UNCHANGED <<logs, appended>>

\* History: the command of caller t has changed a field of the process record.
Touch(t) == touched' = [touched EXCEPT ![t] = @ \/ (procVars' # procVars)]

Goto(t, l) ==
    /\ pc' = [pc EXCEPT ![t] = l]
    /\ UNCHANGED <<ret, arg>>

\* The command of caller t returns r.
Return(t, r) ==
    /\ pc' = [pc EXCEPT ![t] = "idle"]
    /\ ret' = [ret EXCEPT ![t] = r]
    /\ arg' = [arg EXCEPT ![t] = NoArg]

Result(op, res) == [NoRet EXCEPT !.op = op, !.res = res]

(* ------------------------- the file system ---------------------------- *)

\* A plausible slip: the default configuration is written on every run.
ensure_verdaccio_dirs_rewrites(f, failAt) ==
    IF ~f.vdir /\ failAt = 1 THEN [fs |-> f, ok |-> FALSE]
    ELSE LET f1 == [f EXCEPT !.vdir = TRUE] IN
         IF ~f1.sdir /\ failAt = 2 THEN [fs |-> f1, ok |-> FALSE]
         ELSE LET f2 == [f1 EXCEPT !.sdir = TRUE] IN
              IF failAt = 3 THEN [fs |-> f2, ok |-> FALSE]
              ELSE [fs |-> [f2 EXCEPT !.config = "default"], ok |-> TRUE]

\* ensure_verdaccio_dirs on file system f; failAt names the file-system call
\* that fails (1: create ~/.verdaccio, 2: create storage, 3: write
\* config.yaml), 0 when none does.  A call is made only when its target is
\* absent.
ensure_verdaccio_dirs(f, failAt) ==
    IF ~f.vdir /\ failAt = 1 THEN [fs |-> f, ok |-> FALSE]
    ELSE LET f1 == [f EXCEPT !.vdir = TRUE] IN
         IF ~f1.sdir /\ failAt = 2 THEN [fs |-> f1, ok |-> FALSE]
         ELSE LET f2 == [f1 EXCEPT !.sdir = TRUE] IN
              IF f2.config = "absent" /\ failAt = 3 THEN [fs |-> f2, ok |-> FALSE]
              ELSE [fs |-> [f2 EXCEPT !.config = IF @ = "absent" THEN "default" ELSE @],
                    ok |-> TRUE]

\* The three candidate paths of get_verdaccio_entry, in the order probed.
Candidates == <<"bundled", "cwd", "exe">>

\* What get_verdaccio_entry meets: whether app.path().resource_dir() yields
\* a directory, and which of the candidate paths exist (a candidate whose
\* base directory cannot be determined does not exist).
Env(resdir, exists) == [resdir |-> resdir, exists |-> exists]

\* verdaccio.rs:100-155  resource_dir()? returns early with its own error;
\* then the bundled resource path, the one under the current directory and
\* the one relative to the executable are probed in this order.
get_verdaccio_entry(env) ==
    IF ~env.resdir THEN "NoResourceDir"
    ELSE IF "bundled" \in env.exists THEN "bundled"
    ELSE IF "cwd" \in env.exists THEN "cwd"
    ELSE IF "exe" \in env.exists THEN "exe"
    ELSE "NotFound"

\* What the probes of get_verdaccio_entry may find when a start runs.
EntryEnvs == {Env(TRUE, {}), Env(TRUE, {"cwd", "exe"})}

\* Every environment: the bundled path lies in the resource directory.
AllEnvs == {Env(r, x) : r \in BOOLEAN, x \in SUBSET {"bundled", "cwd", "exe"}}
           \ {Env(FALSE, x) : x \in {y \in SUBSET {"bundled", "cwd", "exe"} : "bundled" \in y}}

(* --------------------------- start_verdaccio --------------------------- *)

\* The (port, allow_lan) pairs the front end passes to start_verdaccio.
StartOps == {[op |-> "start", port |-> 4873, allow_lan |-> FALSE],
             [op |-> "start", port |-> 8080, allow_lan |-> TRUE]}

\* A plausible slip: the two branches exchanged.
listen_host_swapped(allow_lan) == IF allow_lan THEN "127.0.0.1" ELSE "0.0.0.0"

listen_host(allow_lan) == IF allow_lan THEN "0.0.0.0" ELSE "127.0.0.1"

\* A plausible slip: the rejection is logged before it is returned.
RejectLogged(t) ==
    /\ Return(t, Result("start", "AlreadyRunning"))
    /\ Log(t, ERROR, <<"already running">>)

\* verdaccio.rs:221, 227  return Err("Verdaccio 已经在运行")
Reject(t) ==
    /\ Return(t, Result("start", "AlreadyRunning"))
    /\ NoLog

\* verdaccio.rs:218-222  ensure_verdaccio_dirs()?;
\* if process.check_running() { return Err(..) }
StartCheckRunning(t) ==
    /\ pc[t] = "s_chk_run"
    /\ \E failAt \in 0 .. 3 :
         LET r == ensure_verdaccio_dirs(fs, failAt) IN
         /\ fs' = r.fs
         /\ IF ~r.ok THEN Return(t, Result("start", "IoFailed")) /\ NoLog
            ELSE IF is_running THEN Reject(t)
            ELSE Goto(t, "s_chk_child") /\ NoLog
    /\ UNCHANGED <<procVars, holder, proc, listen, chan, nout, cons, my, snap,
                   calls, raced, live, during, probed>>
    /\ Touch(t)

\* verdaccio.rs:224-229  lock child; if child.is_some() { return Err(..) }
StartCheckChild(t) ==
    /\ pc[t] = "s_chk_child"
    /\ holder["child"] = 0
    /\ IF child # None
       THEN Reject(t)
       ELSE Goto(t, "s_launch") /\ NoLog
    /\ UNCHANGED <<procVars, holder, envVars, cons, my, snap, calls, raced, live, during, probed>>
    /\ Touch(t)

\* The instance the operating system creates next.
NextInst == CHOOSE i \in Insts : proc[i] = "unborn" /\ \A j \in Insts : j < i => proc[j] # "unborn"

\* The entries of the five add_log calls of verdaccio.rs:234-241.
LaunchEntries(e, p, lan) ==
    <<LogEntry(INFO, MsgStarting), LogEntry(INFO, MsgEntry(e)), LogEntry(INFO, MsgConfig),
      LogEntry(INFO, MsgPort(p)), LogEntry(INFO, MsgHost(listen_host(lan)))>>

\* Consecutive add_log calls of one command, whose entries are es.
RECURSIVE LogAll(_, _)
LogAll(l, es) == IF es = <<>> THEN l ELSE LogAll(push_entry(l, Head(es)), Tail(es))

\* A plausible slip: the running flag is raised before the spawn and not
\* lowered when the spawn fails.
LaunchFailedMarked(t, said, msg) ==
    /\ LogsFree
    /\ logs' = LogAll(logs, said \o <<LogEntry(ERROR, msg)>>)
    /\ appended' = [appended EXCEPT ![t] = @ \o said \o <<LogEntry(ERROR, msg)>>]
    /\ Return(t, Result("start", "SpawnFailed"))
    /\ is_running' = TRUE
    /\ UNCHANGED <<proc, listen, my, child, port, pid>>

\* verdaccio.rs:247-251, 260-264  the map_err closures of sidecar() and
\* spawn(): add_log(ERROR, msg) after the entries `said` already logged by
\* this call, then `?` returns Err
LaunchFailed(t, said, msg) ==
    /\ LogsFree
    /\ logs' = LogAll(logs, said \o <<LogEntry(ERROR, msg)>>)
    /\ appended' = [appended EXCEPT ![t] = @ \o said \o <<LogEntry(ERROR, msg)>>]
    /\ Return(t, Result("start", "SpawnFailed"))
    /\ UNCHANGED <<proc, listen, my, procVars>>

\* verdaccio.rs:231-267  get_verdaccio_entry(&app)?; the add_log calls; the
\* node sidecar with --listen host:port; spawn(); child.pid(); add_log.
\* Each of `?` returns early: entry not found (nothing logged), sidecar or
\* spawn failure (an ERROR entry logged).
StartLaunchIn(t, envs) ==
    /\ pc[t] = "s_launch"
    /\ \E ex \in envs, outcome \in {"sidecar_err", "spawn_err", "spawned"} :
         LET e == get_verdaccio_entry(ex)
             p == arg[t].port
             lan == arg[t].allow_lan
             said == LaunchEntries(e, p, lan)
         IN
         /\ probed' = [probed EXCEPT ![t] = <<ex>>]
         /\ IF e \in {"NotFound", "NoResourceDir"}
            THEN /\ Return(t, Result("start", IF e = "NotFound" THEN "EntryNotFound"
                                                                ELSE "ResourceDirFailed"))
                 /\ NoLog
                 /\ UNCHANGED <<proc, listen, my, procVars>>
            ELSE CASE outcome = "sidecar_err" -> LaunchFailed(t, said, MsgSidecarFailed)
                   [] outcome = "spawn_err" -> LaunchFailed(t, said, MsgSpawnFailed)
                   [] outcome = "spawned" ->
                        /\ \E i \in Insts : proc[i] = "unborn"
                        /\ LogsFree
                        /\ proc' = [proc EXCEPT ![NextInst] = "running"]
                        /\ listen' = [listen EXCEPT ![NextInst] = <<listen_host(lan), p>>]
                        /\ my' = [my EXCEPT ![t] = NextInst]
                        /\ logs' = LogAll(logs, said \o <<LogEntry(INFO, MsgStarted(NextInst))>>)
                        /\ appended' = [appended EXCEPT ![t] =
                                          @ \o said \o <<LogEntry(INFO, MsgStarted(NextInst))>>]
                        /\ Goto(t, "s_rec_child")
                        /\ UNCHANGED procVars
    /\ UNCHANGED <<holder, fs, chan, nout, cons, snap, calls, raced, live, during>>
    /\ Touch(t)

StartLaunch(t) == StartLaunchIn(t, EntryEnvs)

\* verdaccio.rs:270-271  lock child; *process_child = Some(child)
StartRecChild(t) ==
    /\ pc[t] = "s_rec_child"
    /\ holder["child"] = 0
    /\ holder' = [holder EXCEPT !["child"] = t]
    /\ child' = my[t]
    /\ Goto(t, "s_rec_port")
    /\ NoLog
    /\ UNCHANGED <<port, pid, is_running, envVars, cons, my, snap, calls,
                   raced, live, during, probed>>
    /\ Touch(t)

\* verdaccio.rs:272-273  lock port; *process_port = port
StartRecPort(t) ==
    /\ pc[t] = "s_rec_port"
    /\ holder["port"] = 0
    /\ holder' = [holder EXCEPT !["port"] = t]
    /\ port' = arg[t].port
    /\ Goto(t, "s_rec_pid")
    /\ NoLog
    /\ UNCHANGED <<child, pid, is_running, envVars, cons, my, snap, calls,
                   raced, live, during, probed>>
    /\ Touch(t)

\* A plausible slip: the consumer task is spawned inside the block that
\* records the process, before set_running(true).
StartRecPidSpawnsTask(t) ==
    /\ pc[t] = "s_rec_pid"
    /\ pid' = my[t]
    /\ holder' = [holder EXCEPT !["child"] = 0, !["port"] = 0]
    /\ cons' = [cons EXCEPT ![my[t]] = "recv"]
    /\ Goto(t, "s_set_run")
    /\ NoLog
    /\ UNCHANGED <<child, port, is_running, envVars, my, snap, calls,
                   raced, live, during, probed>>
    /\ Touch(t)

\* verdaccio.rs:274-276  lock pid; *process_pid = Some(pid); the block ends
\* and the three guards are dropped
StartRecPid(t) ==
    /\ pc[t] = "s_rec_pid"
    /\ pid' = my[t]
    /\ holder' = [holder EXCEPT !["child"] = 0, !["port"] = 0]
    /\ Goto(t, "s_set_run")
    /\ NoLog
    /\ UNCHANGED <<child, port, is_running, envVars, cons, my, snap, calls,
                   raced, live, during, probed>>
    /\ Touch(t)

\* verdaccio.rs:278  process.set_running(true)
StartSetRunning(t) ==
    /\ pc[t] = "s_set_run"
    /\ is_running' = TRUE
    /\ Goto(t, "s_task")
    /\ NoLog
    /\ UNCHANGED <<child, port, pid, holder, envVars, cons, my, snap, calls,
                   raced, live, during, probed>>
    /\ Touch(t)

StartPcs == {"s_chk_run", "s_chk_child", "s_launch", "s_rec_child", "s_rec_port",
             "s_rec_pid", "s_set_run", "s_task"}

StopPcs == {"p_log", "p_take", "p_said", "p_fail", "p_pid", "p_run"}

\* verdaccio.rs:282-329  spawn the consumer task of this instance; return Ok
StartTask(t) ==
    /\ pc[t] = "s_task"
    /\ cons' = [cons EXCEPT ![my[t]] = "recv"]
    /\ Return(t, [Result("start", "Ok") EXCEPT !.running = TRUE, !.port = arg[t].port,
                                                !.pid = my[t]])
    /\ live' = IF t \in raced THEN live ELSE live \cup {my[t]}
    /\ NoLog
    /\ UNCHANGED <<procVars, holder, envVars, my, snap, calls, raced, during, probed>>
    /\ Touch(t)

start_verdaccio(t) ==
    \/ StartCheckRunning(t)
    \/ StartCheckChild(t)
    \/ StartLaunch(t)
    \/ StartRecChild(t)
    \/ StartRecPort(t)
    \/ StartRecPid(t)
    \/ StartSetRunning(t)
    \/ StartTask(t)

(* ------------------------ the child processes ------------------------- *)

Terminated(code) == [kind |-> "Terminated", text |-> <<code>>]

\* What a child can send before it terminates: a stdout line, a stderr
\* line, an error of its pipes.
OutputEvents ==
    {[kind |-> "Stdout", text |-> <<"http", Blank, "ok", Blank>>],
     [kind |-> "Stderr", text |-> <<ESC, "[", "3", "1", "m", "warn", ESC, "[", "0", "m">>],
     [kind |-> "Error", text |-> <<"broken pipe">>]}

\* CommandChild::kill on instance i when the signal is delivered: a running
\* process dies, and its Terminated event (no exit code) is sent on its
\* channel; a process that has already exited is left as it is.
Killed(i) ==
    IF proc[i] = "running"
    THEN /\ proc' = [proc EXCEPT ![i] = "killed"]
         /\ chan' = [chan EXCEPT ![i] = Append(@, Terminated("None"))]
    ELSE UNCHANGED <<proc, chan>>

\* A running child writes a line to stdout or stderr, or its pipe fails.
ChildOutput(i) ==
    /\ proc[i] = "running"
    /\ nout < MaxOutput
    /\ nout' = nout + 1
    /\ \E e \in OutputEvents : chan' = [chan EXCEPT ![i] = Append(@, e)]
    /\ UNCHANGED <<procVars, logs, holder, fs, proc, listen, cons, callVars, histVars>>

\* A running child exits on its own.
ChildExit(i) ==
    /\ proc[i] = "running"
    /\ proc' = [proc EXCEPT ![i] = "exited"]
    /\ chan' = [chan EXCEPT ![i] = Append(@, Terminated("Some(1)"))]
    /\ UNCHANGED <<procVars, logs, holder, fs, listen, nout, cons, callVars, histVars>>

(* --------------------------- stop_verdaccio ---------------------------- *)

\* verdaccio.rs:335  add_log("正在停止 Verdaccio...")
StopLog(t) ==
    /\ pc[t] = "p_log"
    /\ Log(t, INFO, MsgStopping)
    /\ Goto(t, "p_take")
    /\ UNCHANGED <<procVars, holder, envVars, cons, my, snap, calls, raced, live, during, probed>>
    /\ Touch(t)

\* A plausible slip: "stopped" is logged outside the `if let`, also when no
\* handle was held.
StopNoHandleLogged(t) ==
    /\ holder' = [holder EXCEPT !["child"] = t]
    /\ Goto(t, "p_pid")
    /\ Log(t, INFO, MsgStopped)
    /\ UNCHANGED <<proc, chan>>

\* verdaccio.rs:339, 346  child.take() is None: the `if let` body is skipped
StopNoHandle(t) ==
    /\ holder' = [holder EXCEPT !["child"] = t]
    /\ Goto(t, "p_pid")
    /\ NoLog
    /\ UNCHANGED <<proc, chan>>

\* verdaccio.rs:337-346  lock child (the guard lives until the function
\* returns); child.take(); if a handle was held, proc.kill(): on failure
\* add_log(ERROR) and return Err through `?`, on success add_log(INFO)
StopTake(t) ==
    /\ pc[t] = "p_take"
    /\ holder["child"] = 0
    /\ child' = None
    /\ IF child = None
       THEN StopNoHandle(t)
       ELSE \/ /\ Killed(child)
               /\ Log(t, INFO, MsgStopped)
               /\ holder' = [holder EXCEPT !["child"] = t]
               /\ Goto(t, "p_pid")
            \/ /\ Log(t, ERROR, MsgKillFailed)
               /\ Return(t, Result("stop", "KillFailed"))
               /\ UNCHANGED <<proc, chan, holder>>
    /\ UNCHANGED <<port, pid, is_running, fs, listen, nout, cons, my, snap,
                   calls, raced, live, during, probed>>
    /\ Touch(t)

\* A plausible slip: the pid is cleared through a helper that locks child
\* again, while the guard taken at line 337 is still alive.
StopPidLocksChild(t) ==
    /\ pc[t] = "p_pid"
    /\ holder["child"] = 0
    /\ pid' = None
    /\ Goto(t, "p_run")
    /\ NoLog
    /\ UNCHANGED <<child, port, is_running, holder, envVars, cons, my, snap, ret,
                   calls, raced, live, during, probed>>
    /\ Touch(t)

\* verdaccio.rs:348-351  lock pid; *pid = None
StopPid(t) ==
    /\ pc[t] = "p_pid"
    /\ pid' = None
    /\ Goto(t, "p_run")
    /\ NoLog
    /\ UNCHANGED <<child, port, is_running, holder, envVars, cons, my, snap, ret,
                   calls, raced, live, during, probed>>
    /\ Touch(t)

\* A plausible slip: stop puts the port back to its default.
StopRunResetsPort(t) ==
    /\ pc[t] = "p_run"
    /\ is_running' = FALSE
    /\ port' = DefaultPort
    /\ holder' = [holder EXCEPT !["child"] = 0]
    /\ Return(t, Result("stop", "Ok"))
    /\ NoLog
    /\ UNCHANGED <<child, pid, envVars, cons, my, snap, calls, raced, live, during, probed>>
    /\ Touch(t)

\* verdaccio.rs:352-354  set_running(false); Ok(()); the child guard is dropped
StopRun(t) ==
    /\ pc[t] = "p_run"
    /\ is_running' = FALSE
    /\ holder' = [holder EXCEPT !["child"] = 0]
    /\ Return(t, Result("stop", "Ok"))
    /\ NoLog
    /\ UNCHANGED <<child, port, pid, envVars, cons, my, snap, calls, raced, live, during, probed>>
    /\ Touch(t)

stop_verdaccio(t) ==
    \/ StopLog(t)
    \/ StopTake(t)
    \/ StopPid(t)
    \/ StopRun(t)

(* ------------------------ get_verdaccio_status ------------------------- *)

\* verdaccio.rs:362  let port = *process.port.lock()
StatusPort(t) ==
    /\ pc[t] = "g_port"
    /\ holder["port"] = 0
    /\ snap' = [snap EXCEPT ![t].port = port]
    /\ Goto(t, "g_pid")
    /\ NoLog
    /\ UNCHANGED <<procVars, holder, envVars, cons, my, calls, raced, live, during, probed>>
    /\ Touch(t)

\* verdaccio.rs:363  let pid = *process.pid.lock()
StatusPid(t) ==
    /\ pc[t] = "g_pid"
    /\ snap' = [snap EXCEPT ![t].pid = pid]
    /\ Goto(t, "g_run")
    /\ NoLog
    /\ UNCHANGED <<procVars, holder, envVars, cons, my, calls, raced, live, during, probed>>
    /\ Touch(t)

\* verdaccio.rs:364-372  let running = process.check_running(); Ok(status)
StatusRunning(t) ==
    /\ pc[t] = "g_run"
    /\ Return(t, [Result("status", "Ok") EXCEPT !.running = is_running, !.port = snap[t].port,
                                                 !.pid = snap[t].pid])
    /\ snap' = [snap EXCEPT ![t] = NoSnap]
    /\ NoLog
    /\ UNCHANGED <<procVars, holder, envVars, cons, my, calls, raced, live, during, probed>>
    /\ Touch(t)

get_verdaccio_status(t) ==
    \/ StatusPort(t)
    \/ StatusPid(t)
    \/ StatusRunning(t)

(* --------------- get_verdaccio_logs, clear_verdaccio_logs --------------- *)

\* logs.iter().cloned().collect(): the entries front to back.
collect(l) == [k \in 1 .. Len(l) |-> l[k]]

\* A plausible slip: pop_front in place of clear.
clear_oldest(l) == IF l = <<>> THEN l ELSE Tail(l)

\* VecDeque::clear
clear(l) == <<>>

\* A plausible slip: the entries are drained from the buffer, not cloned.
get_verdaccio_logs_drain(t) ==
    /\ pc[t] = "l_get"
    /\ LogsFree
    /\ Return(t, [Result("logs", "Ok") EXCEPT !.logs = collect(logs)])
    /\ logs' = <<>>
    /\ UNCHANGED <<procVars, holder, envVars, cons, my, snap, calls, raced, live, appended, during, probed>>
    /\ Touch(t)

\* A plausible slip: the buffer is read without its mutex.
get_verdaccio_logs_unlocked(t) ==
    /\ pc[t] = "l_get"
    /\ Return(t, [Result("logs", "Ok") EXCEPT !.logs = collect(logs)])
    /\ NoLog
    /\ UNCHANGED <<procVars, holder, envVars, cons, my, snap, calls, raced, live, during, probed>>
    /\ Touch(t)

\* verdaccio.rs:380-381  lock logs; Ok(logs.iter().cloned().collect())
get_verdaccio_logs(t) ==
    /\ pc[t] = "l_get"
    /\ LogsFree
    /\ Return(t, [Result("logs", "Ok") EXCEPT !.logs = collect(logs)])
    /\ NoLog
    /\ UNCHANGED <<procVars, holder, envVars, cons, my, snap, calls, raced, live, during, probed>>
    /\ Touch(t)

\* verdaccio.rs:387-389  lock logs; logs.clear(); Ok(())
clear_verdaccio_logs(t) ==
    /\ pc[t] = "c_clear"
    /\ LogsFree
    /\ logs' = clear(logs)
    /\ Return(t, Result("clear", "Ok"))
    /\ UNCHANGED <<procVars, holder, envVars, cons, my, snap, calls, raced, live, appended, during, probed>>
    /\ Touch(t)

(* -------------------------- the consumer task -------------------------- *)

\* A plausible slip: an error event is handled like the end of the process.
OnErrorStops(i, e) ==
    /\ logs' = add_log(logs, ERROR, MsgProcError \o e.text)
    /\ cons' = [cons EXCEPT ![i] = "t_run"]
    /\ UNCHANGED live

\* verdaccio.rs:300-302  CommandEvent::Error(err) => add_log("ERROR", ..)
OnError(i, e) ==
    /\ logs' = add_log(logs, ERROR, MsgProcError \o e.text)
    /\ UNCHANGED <<cons, live>>

\* verdaccio.rs:285-307  rx.recv() yields the next event of instance i; an
\* output line is trimmed and logged unless empty, an error is logged, and
\* for Terminated the exit is logged and the clearing begins
ConsumerRecv(i) ==
    /\ cons[i] = "recv"
    /\ chan[i] # <<>>
    /\ LogsFree
    /\ chan' = [chan EXCEPT ![i] = Tail(@)]
    /\ LET e == Head(chan[i]) IN
       CASE e.kind \in {"Stdout", "Stderr"} ->
              /\ logs' = IF Trim(e.text) # <<>>
                         THEN add_log(logs, IF e.kind = "Stdout" THEN "STDOUT" ELSE "STDERR",
                                      Trim(e.text))
                         ELSE logs
              /\ UNCHANGED <<cons, live>>
         [] e.kind = "Error" -> OnError(i, e)
         [] e.kind = "Terminated" ->
              /\ logs' = add_log(logs, INFO, MsgExited(e.text[1]))
              /\ cons' = [cons EXCEPT ![i] = "t_run"]
              /\ live' = live \ {i}
    /\ UNCHANGED <<procVars, holder, fs, proc, listen, nout, callVars, touched, appended,
                   raced, during, probed>>

\* verdaccio.rs:308  process_state.set_running(false)
ConsumerSetRunning(i) ==
    /\ cons[i] = "t_run"
    /\ is_running' = FALSE
    /\ cons' = [cons EXCEPT ![i] = "t_child"]
    /\ UNCHANGED <<child, port, pid, logs, holder, envVars, callVars, histVars>>

\* verdaccio.rs:309-311  lock child; *child = None
ConsumerClearChild(i) ==
    /\ cons[i] = "t_child"
    /\ holder["child"] = 0
    /\ child' = None
    /\ cons' = [cons EXCEPT ![i] = "t_pid"]
    /\ UNCHANGED <<port, pid, is_running, logs, holder, envVars, callVars, histVars>>

\* A plausible slip: no break, the loop goes on receiving.
ConsumerClearPidLoops(i) ==
    /\ cons[i] = "t_pid"
    /\ pid' = None
    /\ cons' = [cons EXCEPT ![i] = "recv"]
    /\ UNCHANGED <<child, port, is_running, logs, holder, envVars, callVars, histVars>>

\* verdaccio.rs:312-315  lock pid; *pid = None; break
ConsumerClearPid(i) ==
    /\ cons[i] = "t_pid"
    /\ pid' = None
    /\ cons' = [cons EXCEPT ![i] = "done"]
    /\ UNCHANGED <<child, port, is_running, logs, holder, envVars, callVars, histVars>>

Consumer(i) ==
    \/ ConsumerRecv(i)
    \/ ConsumerSetRunning(i)
    \/ ConsumerClearChild(i)
    \/ ConsumerClearPid(i)

(* ---------------------------- the front end ---------------------------- *)

FirstPc(op) ==
    CASE op = "start" -> "s_chk_run" [] op = "stop" -> "p_log" [] op = "status" -> "g_port"
      [] op = "logs" -> "l_get" [] op = "clear" -> "c_clear"
      [] op = "save_config" -> "cfg_save" [] op = "reset_config" -> "cfg_reset"

\* The commands without parameters.
PlainOps == {[op |-> o, port |-> DefaultPort, allow_lan |-> FALSE] :
               o \in {"stop", "status", "logs", "clear"}}

\* The clearing of the recorded instance has begun and has not finished:
\* its consumer has received Terminated and has not yet cleared pid, or a
\* stop_verdaccio has taken the handle and has not yet returned.
StoppingOrTerminating ==
    \/ \E i \in Insts : cons[i] \in {"t_run", "t_child", "t_pid"} /\ (child = i \/ pid = i)
    \/ \E u \in Callers : pc[u] \in {"p_pid", "p_run"}

\* The front end invokes one of the commands ops; it runs on the first idle
\* caller (the callers are interchangeable tasks of the runtime).
InvokeOf(t, ops) ==
    /\ pc[t] = "idle"
    /\ \A u \in Callers : u < t => pc[u] # "idle"
    /\ calls < MaxCalls
    /\ calls' = calls + 1
    /\ \E o \in ops :
         /\ pc' = [pc EXCEPT ![t] = FirstPc(o.op)]
         /\ arg' = [arg EXCEPT ![t] = [NoArg EXCEPT !.port = o.port, !.allow_lan = o.allow_lan]]
         /\ live' = IF o.op = "stop" THEN {} ELSE live
         /\ raced' = IF o.op = "stop"
                     THEN {u \in Callers : pc[u] \in StartPcs}
                     ELSE IF \E u \in Callers : pc[u] \in StopPcs
                     THEN raced \cup {t}
                     ELSE raced \ {t}
         /\ during' = IF o.op = "start" /\ StoppingOrTerminating
                      THEN during \cup {t}
                      ELSE during \ {t}
    /\ probed' = [probed EXCEPT ![t] = <<>>]
    /\ my' = [my EXCEPT ![t] = None]
    /\ snap' = [snap EXCEPT ![t] = NoSnap]
    /\ ret' = [ret EXCEPT ![t] = NoRet]
    /\ touched' = [touched EXCEPT ![t] = FALSE]
    /\ appended' = [appended EXCEPT ![t] = <<>>]
    /\ UNCHANGED <<procVars, logs, holder, envVars, cons>>

Invoke(t) == InvokeOf(t, StartOps \cup PlainOps)

Next ==
    \/ \E t \in Callers : Invoke(t)
    \/ \E t \in Callers : start_verdaccio(t)
    \/ \E t \in Callers : stop_verdaccio(t)
    \/ \E t \in Callers : get_verdaccio_status(t)
    \/ \E t \in Callers : get_verdaccio_logs(t)
    \/ \E t \in Callers : clear_verdaccio_logs(t)
    \/ \E i \in Insts : Consumer(i)
    \/ \E i \in Insts : ChildOutput(i)
    \/ \E i \in Insts : ChildExit(i)

Spec == Init /\ [][Next]_vars

\* The runtime keeps scheduling a command that has been invoked and a
\* consumer task that has been spawned; a mutex is held only for the few
\* statements of a critical section.  Nothing obliges the front end to
\* invoke a command or a child to write or to exit.
Fairness ==
    /\ \A t \in Callers :
         WF_vars(start_verdaccio(t) \/ stop_verdaccio(t) \/ get_verdaccio_status(t)
                 \/ get_verdaccio_logs(t) \/ clear_verdaccio_logs(t))
    /\ \A i \in Insts : WF_vars(Consumer(i))

\* Runs of at most FairCalls commands, under that scheduling.
FairInvoke(t) == calls < FairCalls /\ Invoke(t)

FairNext ==
    \/ \E t \in Callers : FairInvoke(t)
    \/ \E t \in Callers : start_verdaccio(t)
    \/ \E t \in Callers : stop_verdaccio(t)
    \/ \E t \in Callers : get_verdaccio_status(t)
    \/ \E t \in Callers : get_verdaccio_logs(t)
    \/ \E t \in Callers : clear_verdaccio_logs(t)
    \/ \E i \in Insts : Consumer(i)
    \/ \E i \in Insts : ChildOutput(i)
    \/ \E i \in Insts : ChildExit(i)

FairSpec == Init /\ [][FairNext]_vars /\ Fairness

(* ---------------------------- a single start --------------------------- *)

\* One start_verdaccio and nothing else: the command, the child it spawns
\* and the consumer task of that child, each scheduled fairly.
SoloInvoke(t) == calls = 0 /\ InvokeOf(t, StartOps)

SoloNext ==
    \/ \E t \in Callers : SoloInvoke(t)
    \/ \E t \in Callers : start_verdaccio(t)
    \/ \E i \in Insts : Consumer(i)
    \/ \E i \in Insts : ChildOutput(i)
    \/ \E i \in Insts : ChildExit(i)

SoloFairness ==
    /\ \A t \in Callers : WF_vars(start_verdaccio(t))
    /\ \A i \in Insts : WF_vars(Consumer(i))

SoloSpec == Init /\ [][SoloNext]_vars /\ SoloFairness

(* ----------------- the file system and the path probes ---------------- *)

\* config.yaml is absent, or holds the text ensure_verdaccio_dirs writes,
\* the (different) text reset_config_to_default writes, or a text the user
\* saved.
ConfigTexts == {"absent", "default", "reset_default", "custom"}

\* What ~/.verdaccio may look like when the application starts: storage and
\* config.yaml lie inside the directory.
FsStates == {f \in [vdir : BOOLEAN, sdir : BOOLEAN, config : ConfigTexts] :
               ~f.vdir => (~f.sdir /\ f.config = "absent")}

\* std::fs::write(config.yaml, text): fails when ~/.verdaccio is missing, and
\* may fail otherwise.
WriteConfig(t, op, text) ==
    /\ \E ok \in BOOLEAN :
         IF ok /\ fs.vdir
         THEN /\ fs' = [fs EXCEPT !.config = text]
              /\ Return(t, Result(op, "Ok"))
         ELSE /\ fs' = fs
              /\ Return(t, Result(op, "IoFailed"))
    /\ NoLog
    /\ UNCHANGED <<procVars, holder, proc, listen, chan, nout, cons, my, snap, calls, raced,
                   live, during, probed>>
    /\ Touch(t)

\* verdaccio.rs:485-491  save_verdaccio_config
save_verdaccio_config(t) ==
    /\ pc[t] = "cfg_save"
    /\ WriteConfig(t, "save_config", "custom")

\* verdaccio.rs:499-538  reset_config_to_default
reset_config_to_default(t) ==
    /\ pc[t] = "cfg_reset"
    /\ WriteConfig(t, "reset_config", "reset_default")

ConfigOps == {[op |-> o, port |-> DefaultPort, allow_lan |-> FALSE] :
                o \in {"save_config", "reset_config"}}

\* The application starts on any of these file systems.
EnvInit ==
    /\ child = None
    /\ port = DefaultPort
    /\ pid = None
    /\ logs = <<>>
    /\ is_running = FALSE
    /\ holder = [l \in Locks |-> 0]
    /\ fs \in FsStates
    /\ proc = [i \in Insts |-> "unborn"]
    /\ listen = [i \in Insts |-> <<"none", DefaultPort>>]
    /\ chan = [i \in Insts |-> <<>>]
    /\ nout = 0
    /\ cons = [i \in Insts |-> "none"]
    /\ pc = [t \in Callers |-> "idle"]
    /\ arg = [t \in Callers |-> NoArg]
    /\ my = [t \in Callers |-> None]
    /\ snap = [t \in Callers |-> NoSnap]
    /\ ret = [t \in Callers |-> NoRet]
    /\ calls = 0
    /\ touched = [t \in Callers |-> FALSE]
    /\ appended = [t \in Callers |-> <<>>]
    /\ raced = {}
    /\ live = {}
    /\ during = {}
    /\ probed = [t \in Callers |-> <<>>]

\* Runs of at most EnvCalls commands, each a start or a configuration
\* command; the probes of a start may find any environment.
EnvInvoke(t) == calls < EnvCalls /\ InvokeOf(t, StartOps \cup ConfigOps)

EnvStart(t) ==
    \/ StartCheckRunning(t)
    \/ StartCheckChild(t)
    \/ StartLaunchIn(t, AllEnvs)
    \/ StartRecChild(t)
    \/ StartRecPort(t)
    \/ StartRecPid(t)
    \/ StartSetRunning(t)
    \/ StartTask(t)

EnvNext ==
    \/ \E t \in Callers : EnvInvoke(t)
    \/ \E t \in Callers : EnvStart(t)
    \/ \E t \in Callers : save_verdaccio_config(t)
    \/ \E t \in Callers : reset_config_to_default(t)
    \/ \E i \in Insts : Consumer(i)
    \/ \E i \in Insts : ChildExit(i)

EnvSpec == EnvInit /\ [][EnvNext]_vars

(* ------------------- add_log, statement by statement ------------------- *)

\* The entry the consumer makes of an output event.
EventEntry(e) ==
    CASE e.kind = "Stdout" -> LogEntry("STDOUT", Trim(e.text))
      [] e.kind = "Stderr" -> LogEntry("STDERR", Trim(e.text))
      [] e.kind = "Error" -> LogEntry(ERROR, MsgProcError \o e.text)

\* verdaccio.rs:287-302, 59  the consumer of instance i takes up the next
\* output event (it stays at the head of chan while it is handled); a line
\* empty after trim is dropped, otherwise add_log locks the logs mutex
ConsumerLock(i) ==
    /\ cons[i] = "recv"
    /\ chan[i] # <<>>
    /\ Head(chan[i]).kind # "Terminated"
    /\ IF Head(chan[i]).kind \in {"Stdout", "Stderr"} /\ Trim(Head(chan[i]).text) = <<>>
       THEN /\ chan' = [chan EXCEPT ![i] = Tail(@)]
            /\ UNCHANGED <<holder, cons>>
       ELSE /\ LogsFree
            /\ holder' = [holder EXCEPT !["logs"] = -i]
            /\ cons' = [cons EXCEPT ![i] = "a_push"]
            /\ UNCHANGED chan
    /\ UNCHANGED <<procVars, logs, fs, proc, listen, nout, callVars, histVars>>

\* verdaccio.rs:61-65  logs.push_back(LogEntry { .. })
ConsumerPush(i) ==
    /\ cons[i] = "a_push"
    /\ logs' = Append(logs, EventEntry(Head(chan[i])))
    /\ chan' = [chan EXCEPT ![i] = Tail(@)]
    /\ cons' = [cons EXCEPT ![i] = "a_evict"]
    /\ UNCHANGED <<procVars, holder, fs, proc, listen, nout, callVars, histVars>>

\* verdaccio.rs:66-69  while logs.len() > MAX_LOG_ENTRIES { logs.pop_front() };
\* at the end of add_log the guard is dropped
ConsumerEvict(i) ==
    /\ cons[i] = "a_evict"
    /\ IF Len(logs) > MAX_LOG_ENTRIES
       THEN /\ logs' = Tail(logs)
            /\ UNCHANGED <<holder, cons>>
       ELSE /\ holder' = [holder EXCEPT !["logs"] = 0]
            /\ cons' = [cons EXCEPT ![i] = "recv"]
            /\ UNCHANGED logs
    /\ UNCHANGED <<procVars, envVars, callVars, histVars>>

\* verdaccio.rs:303-307  the next event is Terminated
ConsumerTerminated(i) ==
    /\ chan[i] # <<>>
    /\ Head(chan[i]).kind = "Terminated"
    /\ ConsumerRecv(i)

\* The consumer task, its add_log calls taken statement by statement.
FineConsumer(i) ==
    \/ ConsumerLock(i)
    \/ ConsumerPush(i)
    \/ ConsumerEvict(i)
    \/ ConsumerTerminated(i)
    \/ ConsumerSetRunning(i)
    \/ ConsumerClearChild(i)
    \/ ConsumerClearPid(i)

(* ---------------------- a stream of child output ---------------------- *)

\* A running child emits its next output event.  So that the order of
\* emission can be read off the text, the text begins with the number of the
\* child and the serial number of the event.
ChildLine(i) ==
    /\ proc[i] = "running"
    /\ nout < MaxLines
    /\ nout' = nout + 1
    /\ \E e \in OutputEvents :
         chan' = [chan EXCEPT ![i] =
                    Append(@, [e EXCEPT !.text = <<DigitStr[i], DigitStr[nout + 1]>> \o @])]
    /\ UNCHANGED <<procVars, logs, holder, fs, proc, listen, cons, callVars, histVars>>

\* An output event of a child that has terminated reaches the channel after
\* the Terminated event (the pipes and the exit are watched by different
\* threads of the shell plugin); its text is marked as late.
ChildLate(i) ==
    /\ proc[i] \in {"exited", "killed"}
    /\ nout < MaxLines
    /\ nout' = nout + 1
    /\ \E e \in OutputEvents :
         chan' = [chan EXCEPT ![i] =
                    Append(@, [e EXCEPT !.text = <<DigitStr[i], DigitStr[nout + 1], "late">> \o @])]
    /\ UNCHANGED <<procVars, logs, holder, fs, proc, listen, cons, callVars, histVars>>

\* Runs of at most StreamCalls commands in which the children emit up to
\* MaxLines events.
StreamInvoke(t) == calls < StreamCalls /\ Invoke(t)

StreamNext ==
    \/ \E t \in Callers : StreamInvoke(t)
    \/ \E t \in Callers : start_verdaccio(t)
    \/ \E t \in Callers : stop_verdaccio(t)
    \/ \E t \in Callers : get_verdaccio_status(t)
    \/ \E t \in Callers : get_verdaccio_logs(t)
    \/ \E t \in Callers : clear_verdaccio_logs(t)
    \/ \E i \in Insts : Consumer(i)
    \/ \E i \in Insts : ChildLine(i)
    \/ \E i \in Insts : ChildLate(i)
    \/ \E i \in Insts : ChildExit(i)

StreamSpec == Init /\ [][StreamNext]_vars

\* Runs of at most LockCalls commands beside such consumers.
LockInvoke(t) == calls < LockCalls /\ Invoke(t)

LockNext ==
    \/ \E t \in Callers : LockInvoke(t)
    \/ \E t \in Callers : start_verdaccio(t)
    \/ \E t \in Callers : stop_verdaccio(t)
    \/ \E t \in Callers : get_verdaccio_status(t)
    \/ \E t \in Callers : get_verdaccio_logs(t)
    \/ \E t \in Callers : clear_verdaccio_logs(t)
    \/ \E i \in Insts : FineConsumer(i)
    \/ \E i \in Insts : ChildLine(i)
    \/ \E i \in Insts : ChildExit(i)

LockSpec == Init /\ [][LockNext]_vars

(* ------------------- the five mutexes, lock by lock -------------------- *)

\* verdaccio.rs:337-341  lock child (the guard lives until the function
\* returns); child.take(); if a handle was held, proc.kill()
StopLockTake(t) ==
    /\ pc[t] = "p_take"
    /\ holder["child"] = 0
    /\ holder' = [holder EXCEPT !["child"] = t]
    /\ child' = None
    /\ IF child = None
       THEN Goto(t, "p_pid") /\ UNCHANGED <<proc, chan>>
       ELSE \/ Killed(child) /\ Goto(t, "p_said")
            \/ UNCHANGED <<proc, chan>> /\ Goto(t, "p_fail")
    /\ NoLog
    /\ UNCHANGED <<port, pid, is_running, fs, listen, nout, cons, my, snap,
                   calls, raced, live, during, probed>>
    /\ Touch(t)

\* verdaccio.rs:345  add_log("Verdaccio 已停止"), the child guard still held
StopSaid(t) ==
    /\ pc[t] = "p_said"
    /\ Log(t, INFO, MsgStopped)
    /\ Goto(t, "p_pid")
    /\ UNCHANGED <<procVars, holder, envVars, cons, my, snap, calls, raced, live, during, probed>>
    /\ Touch(t)

\* verdaccio.rs:340-344  the map_err closure of kill(): add_log(ERROR), the
\* child guard still held; then `?` returns Err and the guard is dropped
StopFailed(t) ==
    /\ pc[t] = "p_fail"
    /\ Log(t, ERROR, MsgKillFailed)
    /\ holder' = [holder EXCEPT !["child"] = 0]
    /\ Return(t, Result("stop", "KillFailed"))
    /\ UNCHANGED <<procVars, envVars, cons, my, snap, calls, raced, live, during, probed>>
    /\ Touch(t)

\* stop_verdaccio, each acquisition of a mutex a step of its own.
FineStop(t) ==
    \/ StopLog(t)
    \/ StopLockTake(t)
    \/ StopSaid(t)
    \/ StopFailed(t)
    \/ StopPid(t)
    \/ StopRun(t)

\* lib.rs:78-88  the tray's quit item: lock child; child.take(); kill the
\* process if a handle was held, whatever kill returns; the guard is
\* dropped; app.exit(0) ends the application and with it every command and
\* consumer task.
Quit ==
    /\ \A t \in Callers : pc[t] # "exit"
    /\ holder["child"] = 0
    /\ child' = None
    /\ IF child = None
       THEN UNCHANGED <<proc, chan>>
       ELSE Killed(child) \/ UNCHANGED <<proc, chan>>
    /\ pc' = [t \in Callers |-> "exit"]
    /\ cons' = [i \in Insts |-> IF cons[i] = "none" THEN "none" ELSE "exit"]
    /\ holder' = [l \in Locks |-> 0]
    /\ UNCHANGED <<port, pid, is_running, logs, fs, listen, nout, arg, my, snap, ret, calls,
                   histVars>>

\* The tasks that take mutexes: the command of caller t is t, the consumer
\* task of instance i is -i.
Tasks == Callers \cup {-i : i \in Insts}

\* The mutex the next statement of a task locks ("none" when it locks one
\* that is never held across a statement, pid or is_running, or none).
Need(h) ==
    IF h \in Callers
    THEN CASE pc[h] \in {"s_chk_child", "s_rec_child", "p_take"} -> "child"
           [] pc[h] \in {"s_rec_port", "g_port"} -> "port"
           [] pc[h] \in {"p_log", "p_said", "p_fail", "l_get", "c_clear"} -> "logs"
           [] OTHER -> "none"
    ELSE CASE cons[-h] = "recv" /\ chan[-h] # <<>> -> "logs"
           [] cons[-h] = "t_child" -> "child"
           [] OTHER -> "none"

\* The order in which the code nests its acquisitions: start locks child,
\* then port, then pid (269-276); stop locks child, then logs, pid and
\* is_running (337-352).
Rank(l) == CASE l = "child" -> 1 [] l = "port" -> 2 [] l = "logs" -> 3 [] l = "none" -> 4

\* The next statement of task h can be executed.
Runnable(h) ==
    IF h \in Callers
    THEN ENABLED (start_verdaccio(h) \/ FineStop(h) \/ get_verdaccio_status(h)
                  \/ get_verdaccio_logs(h) \/ clear_verdaccio_logs(h))
    ELSE ENABLED FineConsumer(-h)

\* Task h has a statement to execute: a command under way, or a consumer
\* task with an event to handle.
Active(h) ==
    IF h \in Callers
    THEN pc[h] \notin {"idle", "exit"}
    ELSE /\ cons[-h] \notin {"none", "done", "exit"}
         /\ ~(cons[-h] = "recv" /\ chan[-h] = <<>>)

\* Runs of at most LockCalls commands, the consumers and the quit item.
MutexNext ==
    \/ \E t \in Callers : LockInvoke(t)
    \/ \E t \in Callers : start_verdaccio(t)
    \/ \E t \in Callers : FineStop(t)
    \/ \E t \in Callers : get_verdaccio_status(t)
    \/ \E t \in Callers : get_verdaccio_logs(t)
    \/ \E t \in Callers : clear_verdaccio_logs(t)
    \/ \E i \in Insts : FineConsumer(i)
    \/ \E i \in Insts : ChildOutput(i)
    \/ \E i \in Insts : ChildExit(i)
    \/ Quit

MutexSpec == Init /\ [][MutexNext]_vars

(* ---------------------- one line of child output ---------------------- *)

\* The tokens an output line is made of.
LineTokens == {ESC, "[", ";", "0", "m", "x", Blank}

RECURSIVE TextsOf(_)
TextsOf(n) ==
    IF n = 0 THEN {<<>>}
    ELSE LET shorter == TextsOf(n - 1) IN
         shorter \cup {Append(s, c) : s \in {x \in shorter : Len(x) = n - 1}, c \in LineTokens}

\* The lines a child may write: every text of at most MaxLen tokens, and a
\* coloured word.
Lines == TextsOf(MaxLen) \cup {<<ESC, "[", "3", "1", "m", "hello", ESC, "[", "0", "m">>}

\* The state after the first command of a run, start_verdaccio(4873, false),
\* has returned Ok and the child has written one line, not yet received.
LineInit ==
    /\ child = 1
    /\ port = DefaultPort
    /\ pid = 1
    /\ logs = LogAll(<<>>, LaunchEntries("cwd", DefaultPort, FALSE)
                           \o <<LogEntry(INFO, MsgStarted(1))>>)
    /\ is_running = TRUE
    /\ holder = [l \in Locks |-> 0]
    /\ fs = ensure_verdaccio_dirs(FreshFs, 0).fs
    /\ proc = [i \in Insts |-> IF i = 1 THEN "running" ELSE "unborn"]
    /\ listen = [i \in Insts |-> IF i = 1 THEN <<listen_host(FALSE), DefaultPort>>
                                  ELSE <<"none", DefaultPort>>]
    /\ \E kind \in {"Stdout", "Stderr"}, text \in Lines :
         chan = [i \in Insts |-> IF i = 1 THEN <<[kind |-> kind, text |-> text]>> ELSE <<>>]
    /\ nout = 1
    /\ cons = [i \in Insts |-> IF i = 1 THEN "recv" ELSE "none"]
    /\ pc = [t \in Callers |-> "idle"]
    /\ arg = [t \in Callers |-> NoArg]
    /\ my = [t \in Callers |-> IF t = 1 THEN 1 ELSE None]
    /\ snap = [t \in Callers |-> NoSnap]
    /\ ret = [t \in Callers |-> IF t = 1
                                 THEN [Result("start", "Ok") EXCEPT !.running = TRUE, !.pid = 1]
                                 ELSE NoRet]
    /\ calls = 1
    /\ touched = [t \in Callers |-> t = 1]
    /\ appended = [t \in Callers |-> IF t = 1
                                      THEN LaunchEntries("cwd", DefaultPort, FALSE)
                                           \o <<LogEntry(INFO, MsgStarted(1))>>
                                      ELSE <<>>]
    /\ raced = {}
    /\ live = {1}
    /\ during = {}
    /\ probed = [t \in Callers |-> IF t = 1 THEN <<Env(TRUE, {"cwd", "exe"})>> ELSE <<>>]

\* The consumer receives the line; the child may exit.
LineNext ==
    \/ \E i \in Insts : Consumer(i)
    \/ \E i \in Insts : ChildExit(i)

LineSpec == LineInit /\ [][LineNext]_vars

(* ------------------------------ the claims ----------------------------- *)

Returned(t, op) == pc[t] = "idle" /\ ret[t].op = op

Spawned == {i \in Insts : proc[i] # "unborn"}

Stopped == child = None /\ pid = None /\ ~is_running

\* C1: when the first two commands of a run are two start_verdaccio calls
\* (so no stop lies between them), no child has exited and neither call
\* failed on the file system or the spawn, exactly one of them returned Ok,
\* the other returned AlreadyRunning, and exactly one child was spawned.
C1_OneStartWins ==
    \A t, u \in Callers :
        ( /\ t # u
          /\ calls = 2
          /\ Returned(t, "start") /\ Returned(u, "start")
          /\ {ret[t].res, ret[u].res} \subseteq {"Ok", "AlreadyRunning"}
          /\ \A i \in Insts : proc[i] \in {"unborn", "running"} )
        => /\ {ret[t].res, ret[u].res} = {"Ok", "AlreadyRunning"}
           /\ Cardinality(Spawned) = 1

\* C2: when stop_verdaccio has returned KillFailed, the bookkeeping is
\* cleared: at the return the handle is None, pid is None and is_running is
\* false (so that a later start is not rejected).
C2_KillFailedClears ==
    \A t \in Callers :
        (Returned(t, "stop") /\ ret[t].res = "KillFailed" /\ \A u \in Callers : pc[u] = "idle")
        => Stopped

\* C3: in no reachable state is is_running false while pid is Some, and no
\* snapshot returned by get_verdaccio_status has running false with pid Some.
C3_NoStalePid ==
    /\ ~(~is_running /\ pid # None)
    /\ \A t \in Callers : Returned(t, "status") => ~(~ret[t].running /\ ret[t].pid # None)

\* C4: get_verdaccio_status never returns running = true with pid = None.
C4_NoRunningWithoutPid ==
    \A t \in Callers : Returned(t, "status") => ~(ret[t].running /\ ret[t].pid = None)

\* C5: in every reachable state pid is Some exactly when a handle is held.
C5_PidIffChild == (pid # None) <=> (child # None)

\* C6: for every instance whose start_verdaccio returned Ok, until
\* stop_verdaccio is called or the instance's own termination event is
\* received, the fields a status call reads are running = true, pid = the
\* instance's pid and port = the port it was started with.
C6_StatusWhileLive ==
    \A i \in live : is_running /\ pid = i /\ port = listen[i][2]

\* C7: once the consumer has received the termination event of the child
\* whose handle is held, a state follows in which is_running is false, the
\* handle is None and pid is None; and from such a state, with no
\* start_verdaccio in progress, no step leads to a state that is not so.
C7_TerminationClears ==
    /\ \A i \in Insts : (cons[i] = "t_run" /\ child = i) ~> Stopped
    /\ [][(Stopped /\ \A t \in Callers : pc[t] \notin StartPcs) => Stopped']_vars

\* C8: a start_verdaccio that returned EntryNotFound or SpawnFailed has not
\* changed child, pid, port or is_running and has left no process and no
\* consumer task behind; when it was the only command of the run, the
\* record is still Stopped with the default port and no consumer exists, so
\* that the checks of a later start pass.
C8_FailedStartLeavesStopped ==
    \A t \in Callers :
        (Returned(t, "start") /\ ret[t].res \in {"EntryNotFound", "SpawnFailed"})
        => /\ ~touched[t]
           /\ my[t] = None
           /\ calls = 1 => /\ Stopped
                           /\ port = DefaultPort
                           /\ Spawned = {}
                           /\ \A i \in Insts : cons[i] = "none"

C8_Witness ==
    \E t \in Callers :
        /\ Returned(t, "start") /\ ret[t].res = "SpawnFailed" /\ calls = 1
        /\ Len(appended[t]) = 6

\* C9: a start_verdaccio that returned AlreadyRunning has changed none of
\* child, pid, port, is_running, has appended nothing to the log buffer and
\* has spawned no process.
C9_RejectedStartNoEffect ==
    \A t \in Callers :
        (Returned(t, "start") /\ ret[t].res = "AlreadyRunning")
        => ~touched[t] /\ appended[t] = <<>> /\ my[t] = None

C9_Witness ==
    \E t \in Callers :
        Returned(t, "start") /\ ret[t].res = "AlreadyRunning" /\ child # None /\ is_running

\* C10 as stated: a stop_verdaccio that returns when no process was ever
\* spawned returned Ok and has changed neither child, pid, port, is_running
\* nor the log buffer.
C10_StopNeverStartedNoChange ==
    \A t \in Callers :
        (Returned(t, "stop") /\ Spawned = {})
        => ret[t].res = "Ok" /\ ~touched[t] /\ appended[t] = <<>>

\* C10 as amended: a stop_verdaccio that returns when no process was ever
\* spawned returned Ok and has left child, pid, port and is_running as they
\* were; to the log buffer it has appended exactly one entry, the INFO entry
\* written at the top of the function.
C10_StopNeverStartedLogsOnce ==
    \A t \in Callers :
        (Returned(t, "stop") /\ Spawned = {})
        => /\ ret[t].res = "Ok"
           /\ ~touched[t]
           /\ appended[t] = <<LogEntry(INFO, MsgStopping)>>

C10_Witness ==
    \E t \in Callers :
        Returned(t, "stop") /\ Spawned = {} /\ logs # <<>> /\ logs[Len(logs)].message = MsgStopping

\* C11: the log buffer never holds more than MAX_LOG_ENTRIES entries,
\* whatever add_log and clear_verdaccio_logs calls have run, and no
\* get_verdaccio_logs has returned more than MAX_LOG_ENTRIES entries.
C11_LogBounded ==
    /\ Len(logs) <= MAX_LOG_ENTRIES
    /\ \A t \in Callers : Len(ret[t].logs) <= MAX_LOG_ENTRIES

C11_Witness ==
    \E t \in Callers :
        /\ Returned(t, "logs") /\ Len(ret[t].logs) = MAX_LOG_ENTRIES
        /\ \E i \in Insts : ret[t].logs[MAX_LOG_ENTRIES] = LogEntry(INFO, MsgStarted(i))

\* The last MAX_LOG_ENTRIES entries of a sequence (all of it when shorter).
LastEntries(s) ==
    IF Len(s) <= MAX_LOG_ENTRIES THEN s ELSE SubSeq(s, Len(s) - MAX_LOG_ENTRIES + 1, Len(s))

\* The entries of b beyond its prefix a.
NewEntries(a, b) == SubSeq(b, Len(a) + 1, Len(b))

\* C12: every step leaves the log buffer as it was, or empties it (a
\* clear_verdaccio_logs), or makes it the last MAX_LOG_ENTRIES entries of the
\* old buffer followed by the entries the step appended, in append order (so
\* the buffer is always the suffix of what was appended since the last
\* clear, and a full buffer loses exactly its oldest entries); and
\* get_verdaccio_logs returns the buffer front to back.
C12_FifoSuffix ==
    [][ /\ \/ logs' = logs
           \/ \E t \in Callers : pc[t] = "c_clear" /\ pc'[t] = "idle" /\ logs' = <<>>
           \/ \E t \in Callers :
                /\ Len(appended'[t]) > Len(appended[t])
                /\ logs' = LastEntries(logs \o NewEntries(appended[t], appended'[t]))
           \/ \E i \in Insts :
                /\ cons[i] = "recv" /\ chan'[i] # chan[i]
                /\ logs' = LastEntries(Append(logs, logs'[Len(logs')]))
        /\ \A t \in Callers :
             (pc[t] = "l_get" /\ pc'[t] = "idle") => ret'[t].logs = logs ]_vars

C12_Witness ==
    \E t \in Callers, i \in Insts :
        /\ Returned(t, "stop")
        /\ logs = <<LogEntry(INFO, MsgStarted(i)), LogEntry(INFO, MsgStopping),
                    LogEntry(INFO, MsgStopped)>>

\* C13: the log buffer never contains an entry whose message is empty or
\* consists of blanks only.
C13_NoBlankEntry ==
    \A k \in 1 .. Len(logs) : Trim(logs[k].message) # <<>>

\* s[i..j] is a complete sequence ESC '[' (digit or ';')* 'm'.
IsAnsi(s, i, j) ==
    /\ i + 2 <= j /\ j <= Len(s)
    /\ s[i] = ESC /\ s[i + 1] = "[" /\ s[j] = "m"
    /\ \A k \in i + 2 .. j - 1 : s[k] \in {"0", "1", "3", ";"}

\* The positions of s that lie in no complete sequence.
Outside(s) ==
    {k \in 1 .. Len(s) : ~\E i \in 1 .. Len(s), j \in 1 .. Len(s) : IsAnsi(s, i, j) /\ i <= k /\ k <= j}

\* s with every complete sequence removed and nothing else changed.
Sanitized(s) ==
    LET keep == Outside(s) IN
    [n \in 1 .. Cardinality(keep) |->
        s[CHOOSE k \in keep : Cardinality({x \in keep : x <= k}) = n]]

\* C14: when the consumer passes the trimmed line m of a child to add_log,
\* the message of the entry stored is m with every complete sequence
\* ESC '[' (digit or ';')* 'm' removed and nothing else changed (m itself
\* when it holds none, truncated or malformed sequences kept); and the
\* message stored for ESC[31m hello ESC[0m is exactly hello.
C14_StoredMessage ==
    /\ [][\A i \in Insts :
            ( /\ cons[i] = "recv" /\ chan[i] # <<>> /\ chan'[i] = Tail(chan[i])
              /\ Head(chan[i]).kind \in {"Stdout", "Stderr"}
              /\ Trim(Head(chan[i]).text) # <<>> )
            => LET m == Trim(Head(chan[i]).text) IN
               /\ logs' # <<>>
               /\ logs'[Len(logs')].message = Sanitized(m)
               /\ Outside(m) = 1 .. Len(m) => logs'[Len(logs')].message = m]_vars
    /\ LogEntry(INFO, <<ESC, "[", "3", "1", "m", "hello", ESC, "[", "0", "m">>).message
         = <<"hello">>

C14_Witness ==
    /\ cons[1] = "recv" /\ chan[1] = <<>>
    /\ logs[Len(logs)] = [level |-> "STDERR", message |-> <<ESC, "[", "x">>]

\* C15: the step of clear_verdaccio_logs leaves the log buffer empty,
\* whatever it held; and a get_verdaccio_logs that runs while the buffer is
\* still empty (no append since the clear) returns the empty sequence.
C15_ClearEmpties ==
    [][\A t \in Callers :
          /\ (pc[t] = "c_clear" /\ pc'[t] = "idle") => logs' = <<>>
          /\ (pc[t] = "l_get" /\ pc'[t] = "idle" /\ logs = <<>>) => ret'[t].logs = <<>>]_vars

\* A run of three commands one after the other, the first a start that
\* spawned (and so logged), the last a get_verdaccio_logs that returned the
\* empty sequence: the second was a clear of a full buffer.
C15_Witness ==
    /\ calls = 3 /\ Spawned # {}
    /\ Returned(1, "logs") /\ ret[1].logs = <<>>
    /\ pc[2] = "idle" /\ ret[2].op = "none"

\* C16: a start_verdaccio(p, allow_lan) that has spawned its child passed it
\* the listen address 0.0.0.0:p when allow_lan is true and 127.0.0.1:p when
\* it is false; and when it has returned Ok and no other start_verdaccio has
\* spawned a child, the port a status call reads is p.
C16_ListenAddress ==
    /\ \A t \in Callers :
         pc[t] \in {"s_rec_child", "s_rec_port", "s_rec_pid", "s_set_run", "s_task"}
         => listen[my[t]] = <<IF arg[t].allow_lan THEN "0.0.0.0" ELSE "127.0.0.1", arg[t].port>>
    /\ \A t \in Callers :
         (Returned(t, "start") /\ ret[t].res = "Ok" /\ Spawned = {my[t]})
         => port = ret[t].port /\ listen[my[t]][2] = ret[t].port

C16_Witness ==
    \E t, u \in Callers :
        /\ Returned(t, "start") /\ ret[t].res = "Ok" /\ Spawned = {my[t]}
        /\ listen[my[t]] = <<"0.0.0.0", 8080>>
        /\ Returned(u, "status") /\ ret[u].port = 8080 /\ ret[u].running

\* C17: no step of get_verdaccio_status and no step of get_verdaccio_logs
\* changes child, pid, port, is_running or the log buffer, in whatever
\* state the command runs.
C17_QueriesMutateNothing ==
    [][\A t \in Callers :
          (pc[t] \in {"g_port", "g_pid", "g_run", "l_get"} /\ pc'[t] # pc[t])
          => UNCHANGED <<child, pid, port, is_running, logs>>]_vars

\* Both queries have returned while a process was recorded and the buffer
\* was full.
C17_Witness ==
    \E t, u \in Callers :
        /\ Returned(t, "status") /\ ret[t].running /\ ret[t].pid # None
        /\ Returned(u, "logs") /\ Len(ret[u].logs) = MAX_LOG_ENTRIES
        /\ child # None /\ logs = ret[u].logs

\* C18: a start_verdaccio invoked while the recorded instance is in
\* StoppingOrTerminating does not pass its checks while that clearing is
\* still in progress: the step of its last check rejects it with
\* AlreadyRunning, so that it never runs interleaved with the clearing.
C18_ClearingRejectsStart ==
    [][\A t \in during :
          (pc[t] = "s_chk_child" /\ pc'[t] # pc[t] /\ StoppingOrTerminating)
          => (pc'[t] = "idle" /\ ret'[t].res = "AlreadyRunning")]_vars

\* C19: when instance A was killed by stop_verdaccio, instance B was
\* started after that stop and is live (its start returned Ok, no stop was
\* called since, its own termination event was not received), and the
\* consumer of A has gone on from A's termination event, the handle and pid
\* are B's and is_running is true.
C19_StaleTerminationIgnored ==
    \A A, B \in Insts :
        ( /\ A # B
          /\ proc[A] = "killed"
          /\ B \in live
          /\ cons[A] \in {"t_child", "t_pid", "done"} )
        => (child = B /\ pid = B /\ is_running)

\* The entries the consumer of a child writes: STDOUT, STDERR, and ERROR
\* with the text of a process error.
FromChild(e) ==
    \/ e.level \in {"STDOUT", "STDERR"}
    \/ e.level = ERROR /\ SubSeq(e.message, 1, Len(MsgProcError)) = MsgProcError

\* The child number and serial number in the text of such an entry.
TagOf(e) ==
    IF e.level = ERROR
    THEN SubSeq(e.message, Len(MsgProcError) + 1, Len(MsgProcError) + 2)
    ELSE SubSeq(e.message, 1, 2)

SerialOf(d) == CHOOSE k \in 1 .. Len(DigitStr) : DigitStr[k] = d

\* C20: the entries in the log buffer that come from one child stand in
\* the order in which the child emitted (and its consumer received) their
\* events, and every one of them precedes, in that order, the events of the
\* child that are still waiting in its channel.
C20_ChildOrderKept ==
    /\ \A j, k \in 1 .. Len(logs) :
         ( /\ j < k /\ FromChild(logs[j]) /\ FromChild(logs[k])
           /\ TagOf(logs[j])[1] = TagOf(logs[k])[1] )
         => SerialOf(TagOf(logs[j])[2]) < SerialOf(TagOf(logs[k])[2])
    /\ \A i \in Insts, j \in 1 .. Len(logs) : \A k \in 1 .. Len(chan[i]) :
         ( /\ FromChild(logs[j]) /\ TagOf(logs[j])[1] = DigitStr[i]
           /\ chan[i][k].kind # "Terminated" )
         => SerialOf(TagOf(logs[j])[2]) < SerialOf(chan[i][k].text[2])

\* Two entries of one child, written by its consumer one after the other
\* while another child was running.
C20_Witness ==
    /\ Len(logs) >= 2
    /\ LET a == logs[Len(logs) - 1]
           b == logs[Len(logs)]
       IN /\ FromChild(a) /\ FromChild(b) /\ TagOf(a)[1] = TagOf(b)[1]
          /\ a.level = "STDERR" /\ b.level = ERROR
    /\ \A i \in Insts : proc[i] = "running"

\* The consumer of instance i has received the Terminated event.
Ended(i) == cons[i] \in {"t_run", "t_child", "t_pid", "done"}

\* C21: once the consumer of an instance has received its Terminated event,
\* it takes nothing more from the channel, and when the clearing is done it
\* stays ended; no event that reached the channel after Terminated is ever
\* found in the log buffer.
C21_EndsAfterTermination ==
    /\ [](\A k \in 1 .. Len(logs) : \A j \in 1 .. Len(logs[k].message) :
            logs[k].message[j] # "late")
    /\ [][\A i \in Insts :
            /\ Ended(i) => /\ Len(chan'[i]) >= Len(chan[i])
                            /\ SubSeq(chan'[i], 1, Len(chan[i])) = chan[i]
            /\ cons[i] = "done" => cons'[i] = "done"]_vars

\* The consumer has ended and an event that followed Terminated lies unread
\* in its channel.
C21_Witness ==
    \E i \in Insts :
        /\ cons[i] = "done" /\ chan[i] # <<>>
        /\ chan[i][1].kind # "Terminated"

\* C22: every get_verdaccio_logs takes its result at an instant at which no
\* add_log and no clear is under way (the logs mutex is free); the result is
\* the buffer of that instant and has at most MAX_LOG_ENTRIES entries, also
\* while an add_log of the consumer has pushed and not yet evicted.
C22_SnapshotAtomic ==
    /\ [](\A t \in Callers : Len(ret[t].logs) <= MAX_LOG_ENTRIES)
    /\ [][\A t \in Callers :
            (pc[t] = "l_get" /\ pc'[t] = "idle")
            => /\ holder["logs"] = 0
               /\ Len(logs) <= MAX_LOG_ENTRIES
               /\ ret'[t].logs = logs]_vars

\* A get_verdaccio_logs is pending while the consumer's add_log has pushed
\* onto the full buffer and not yet evicted.
C22_Witness ==
    \E t \in Callers :
        /\ pc[t] = "l_get"
        /\ holder["logs"] # 0
        /\ Len(logs) = MAX_LOG_ENTRIES + 1

\* C23: port is the default as long as no start has spawned; the only step
\* that changes port is the one in which a start_verdaccio that has spawned
\* its child (and so returns Ok) stores its parameter; no step of
\* stop_verdaccio and no step of a consumer task changes it; and after the
\* only instance spawned has been stopped or has terminated, port is still
\* the port it was started with.
C23_PortKept ==
    /\ [](Spawned = {} => port = DefaultPort)
    /\ [](\A i \in Insts :
            (Spawned = {i} /\ cons[i] # "none" /\ proc[i] \in {"exited", "killed"})
            => port = listen[i][2])
    /\ [][/\ (port' # port)
              => (\E t \in Callers : /\ pc[t] = "s_rec_port" /\ pc'[t] = "s_rec_pid"
                                      /\ my[t] # None /\ port' = arg[t].port)
           /\ \A u \in Callers : (pc[u] \in StopPcs /\ pc'[u] # pc[u]) => port' = port
           /\ \A i \in Insts : cons'[i] # cons[i] => port' = port]_vars

\* A process started on port 8080 has been stopped and its termination
\* handled; status has reported not running, port 8080.
C23_Witness ==
    \E t \in Callers, i \in Insts :
        /\ Spawned = {i} /\ proc[i] = "killed" /\ cons[i] = "done"
        /\ Stopped /\ port = 8080
        /\ Returned(t, "status") /\ ~ret[t].running /\ ret[t].port = 8080

\* C24: the step in which a consumer handles a stdout, stderr or error
\* event leaves child, pid, port and is_running unchanged and the consumer
\* receiving; an error event puts an ERROR entry at the end of the log
\* buffer, a line that is not empty after trim a STDOUT or STDERR entry;
\* and a consumer step changes child, pid or is_running only once the
\* consumer has received Terminated.
C24_OutputTouchesLogOnly ==
    [][\A i \in Insts :
          /\ ( /\ cons[i] = "recv" /\ chan[i] # <<>> /\ chan'[i] = Tail(chan[i])
                /\ Head(chan[i]).kind # "Terminated" )
             => LET e == Head(chan[i]) IN
                /\ UNCHANGED <<child, pid, port, is_running>>
                /\ cons'[i] = "recv"
                /\ e.kind = "Error"
                   => logs' # <<>> /\ logs'[Len(logs')].level = ERROR
                /\ (e.kind = "Stdout" /\ Trim(e.text) # <<>>)
                   => logs' # <<>> /\ logs'[Len(logs')].level = "STDOUT"
                /\ (e.kind = "Stderr" /\ Trim(e.text) # <<>>)
                   => logs' # <<>> /\ logs'[Len(logs')].level = "STDERR"
          /\ (cons'[i] # cons[i] /\ <<child, pid, is_running>>' # <<child, pid, is_running>>)
             => Ended(i)]_vars

\* The consumer has handled an error event and goes on receiving while the
\* process is recorded as running.
C24_Witness ==
    \E i \in Insts :
        /\ cons[i] = "recv" /\ chan[i] = <<>> /\ nout = 1
        /\ logs # <<>> /\ logs[Len(logs)] = LogEntry(ERROR, MsgProcError \o <<"broken pipe">>)
        /\ child = i /\ pid = i /\ is_running

\* C25: ensure_verdaccio_dirs never changes a configuration file that
\* exists, whether it succeeds or fails; when it succeeds, a configuration
\* that was absent holds the default text, and a second run on the result
\* makes no file-system call (so it cannot fail) and leaves the same
\* directories and file contents.  The ensure_verdaccio_dirs of every start
\* acts so on the file system it finds.
C25_EnsureIdempotent ==
    /\ [](\A k \in 0 .. 3 :
            LET r == ensure_verdaccio_dirs(fs, k) IN
            /\ fs.config # "absent" => r.fs.config = fs.config
            /\ r.ok => /\ r.fs.vdir /\ r.fs.sdir
                       /\ r.fs.config = IF fs.config = "absent" THEN "default" ELSE fs.config
                       /\ \A k2 \in 0 .. 3 : ensure_verdaccio_dirs(r.fs, k2) = r)
    /\ [][\A t \in Callers :
            (pc[t] = "s_chk_run" /\ pc'[t] # "s_chk_run")
            => /\ fs.config # "absent" => fs'.config = fs.config
               /\ (fs.vdir /\ fs.sdir /\ fs.config # "absent")
                  => fs' = fs /\ ret'[t].res # "IoFailed"
               /\ pc'[t] # "idle" => fs' = ensure_verdaccio_dirs(fs, 0).fs]_vars

\* Two starts have run ensure_verdaccio_dirs, the second on the result of
\* the first, and the configuration the user had saved is still there.
C25_Witness ==
    /\ calls = 2
    /\ fs = [vdir |-> TRUE, sdir |-> TRUE, config |-> "custom"]
    /\ \E t \in Callers : Returned(t, "start") /\ ret[t].res = "Ok"
    /\ \E t \in Callers : Returned(t, "start") /\ ret[t].res = "AlreadyRunning"

\* The first of the candidates that exists, "NotFound" when none does.
FirstExisting(exists) ==
    IF \E k \in 1 .. 3 : Candidates[k] \in exists
    THEN Candidates[CHOOSE k \in 1 .. 3 :
                      /\ Candidates[k] \in exists
                      /\ \A j \in 1 .. k - 1 : Candidates[j] \notin exists]
    ELSE "NotFound"

\* C26: whatever combination of the candidate paths a start finds, it goes
\* on with the first existing one in the order bundled, current directory,
\* executable (the entry it logs), and it returns the not-found error
\* exactly when none of them exists.
C26_FirstExistingWins ==
    \A t \in Callers :
        probed[t] # <<>>
        => LET found == FirstExisting(probed[t][1].exists) IN
           /\ found = "NotFound" <=> (Returned(t, "start") /\ ret[t].res = "EntryNotFound")
           /\ found # "NotFound"
              => /\ Len(appended[t]) >= 2
                 /\ appended[t][2] = LogEntry(INFO, MsgEntry(found))

\* C27: in a run of a single start_verdaccio, the consumer task of the
\* spawned instance exists only once the start has returned Ok; at the step
\* that spawns it the record holds the instance's handle, pid and port and
\* is_running is true, and no event of the instance has been taken; while
\* it waits for events the record stays so; when it has finished the record
\* is cleared; and a child that has exited, however early, leads to
\* is_running false, handle None and pid None.
C27_RecordedBeforeEvents ==
    /\ [](\A i \in Insts :
            /\ cons[i] # "none"
               => \E t \in Callers : my[t] = i /\ Returned(t, "start") /\ ret[t].res = "Ok"
            /\ (cons[i] = "none" /\ proc[i] # "unborn")
               => nout + (IF proc[i] = "exited" THEN 1 ELSE 0) = Len(chan[i])
            /\ cons[i] = "recv"
               => child = i /\ pid = i /\ is_running /\ port = listen[i][2]
            /\ cons[i] = "done" => Stopped)
    /\ [][\A i \in Insts :
            (cons[i] = "none" /\ cons'[i] # "none")
            => /\ child' = i /\ pid' = i /\ is_running' /\ port' = listen[i][2]
               /\ chan'[i] = chan[i]]_vars
    /\ \A i \in Insts : (proc[i] = "exited") ~> (Stopped /\ cons[i] = "done")

\* The child has exited while start_verdaccio was still recording it: the
\* record is complete and marked running, the Terminated event waits, and
\* the consumer task has not been spawned yet.
C27_Witness ==
    \E t \in Callers, i \in Insts :
        /\ calls = 1 /\ pc[t] = "s_task" /\ my[t] = i
        /\ proc[i] = "exited" /\ cons[i] = "none"
        /\ chan[i] = <<Terminated("Some(1)")>>
        /\ child = i /\ pid = i /\ is_running

\* No command is in progress and every consumer task has handled all that
\* its child delivered.
Quiescent ==
    /\ \A t \in Callers : pc[t] = "idle"
    /\ \A i \in Insts : chan[i] = <<>> /\ cons[i] \in {"none", "recv", "done"}

\* Every command of the run so far was a start_verdaccio: no stop was
\* called, so no kill was attempted and none has failed.
OnlyStarts == calls = Cardinality({t \in Callers : Returned(t, "start")})

\* C28: in every quiescent state in which no kill has failed, is_running,
\* child.is_some() and pid.is_some() have the same truth value.  Stated for
\* the interleavings of starts and termination events alone.
C28_QuiescentAgree ==
    (Quiescent /\ OnlyStarts)
    => /\ is_running <=> child # None
       /\ is_running <=> pid # None

\* C29: no task ever blocks for good on a mutex.  A task that has a
\* statement to execute and cannot execute it waits for a mutex that
\* another task holds; no task locks a mutex it holds; every mutex a task
\* holds comes before the one it locks next in the one order child, port,
\* logs (pid and is_running last), so that the tasks waiting for one another
\* form no cycle; and the quit item waits for child only while a task holds
\* it.
C29_NoDeadlock ==
    /\ \A h \in Tasks :
          /\ (Active(h) /\ ~Runnable(h))
             => Need(h) \in Locks /\ holder[Need(h)] \notin {0, h}
          /\ Active(h)
             => \A l \in Locks : holder[l] = h => l # Need(h) /\ Rank(l) < Rank(Need(h))
          /\ ~Active(h) => \A l \in Locks : holder[l] # h
    /\ \A l \in Locks : holder[l] \in Tasks \cup {0}
    /\ (\A t \in Callers : pc[t] # "exit") => (ENABLED Quit \/ holder["child"] # 0)

\* stop_verdaccio holds child and waits for logs, which the consumer task
\* holds inside add_log; the quit item waits for child.
C29_Witness ==
    \E t \in Callers, i \in Insts :
        /\ pc[t] = "p_said" /\ holder["child"] = t /\ ~Runnable(t)
        /\ holder["logs"] = -i /\ Runnable(-i)
        /\ ~ENABLED Quit

====
